---- MODULE Spec2Model ----
(***************************************************************************)
(* Model of qiskit/unroll/_simulatorbackend.py: SimulatorBackend, the      *)
(* unroller backend that lowers a circuit into a flat operation list.      *)
(* Every method of the callback surface is one action; an exception is     *)
(* recorded in last.result together with whatever the method had already   *)
(* assigned before the raise.                                               *)
(***************************************************************************)
EXTENDS Integers, Sequences, FiniteSets, TLC

\* ---------------------------------------------------------------- bounds
MaxOps == 2      \* records appended to circuit['qasm'] in one behaviour
MaxDepth == 2    \* open start_gate calls tracked at once
MaxRegs == 2     \* new_qreg and new_creg calls in one behaviour of SpecIndex
MaxIndexOps == 1 \* records appended in one behaviour of SpecIndex

\* ---------------------------------------------------------------- values
\* Python's None where an index (an int) is expected: dict.get's default.
NoneIdx == -1
\* Python's None where a register name (a str) is expected.
NoneStr == "<None>"

OK == "ok"
UnsupportedConditionalOperation == "BackendException: UnitarySimulator does not support if"
OpaqueGateNotInBasis == "BackendException: opaque gate not in basis"
InvalidRegisterSize(kind) == "AssertionError: invalid " \o kind \o " size"
KeyError == "KeyError"

GateNames == {"h", "op"}
QRegNames == {"q", "r"}
CRegNames == {"c"}
RegSizes == {-1, 0, 1, 2}
QRefs == {<<"q", 0>>, <<"q", 1>>, <<"r", 0>>}
CRefs == {<<"c", 0>>, <<"c", 1>>}
\* lists of qubit groups handed to barrier
BarrierLists == {<< >>, << <<"q", 0>> >>, << <<"q", 0>>, <<"q", 1>> >>}
\* gatedata: the AST node of a gate declaration, of which only the
\* "opaque" entry is read.
GateData == {[opaque |-> FALSE], [opaque |-> TRUE]}
\* basis lists handed to the constructor
InitBases == {<< >>, <<"h", "op">>}
\* basis lists handed to the constructor in SpecGate: every subset of the gate names
GateBases == {<< >>, <<"h">>, <<"op">>, <<"h", "op">>}
\* angles in quarter turns (k stands for k*pi/2); theta is a multiple of pi
UArgs == {<<0, 0, 0>>, <<2, 0, 1>>}

VARIABLES
    circuit,            \* self.circuit: dict with 'qasm' and, once set, the counts and orders
    _number_of_qubits,  \* self._number_of_qubits
    _number_of_cbits,   \* self._number_of_cbits
    _qubit_order,       \* self._qubit_order: dict (name, j) -> index
    _cbit_order,        \* self._cbit_order
    _operation_order,   \* self._operation_order
    creg, cval,         \* self.creg, self.cval: the active condition
    gates,              \* self.gates: dict name -> gatedata
    basis,              \* self.basis: list of names
    listen,             \* self.listen
    in_gate,            \* self.in_gate
    last,               \* the last callback and how it returned
    stack,              \* history: names of the start_gate calls not yet matched by an end_gate
    balanced,           \* history: every end_gate so far closed the innermost open start_gate
    muter,              \* history: depth in stack of the start_gate that found its name in the basis while listening (0: none)
    sameNested,         \* history: a start_gate of the muter's own name was called inside it
    qregs, cregs        \* history: the <<name, size>> of the accepted new_qreg / new_creg calls

vars == <<circuit, _number_of_qubits, _number_of_cbits, _qubit_order, _cbit_order,
          _operation_order, creg, cval, gates, basis, listen, in_gate, last,
          stack, balanced, muter, sameNested, qregs, cregs>>

regVars == <<_number_of_qubits, _number_of_cbits, _qubit_order, _cbit_order, qregs, cregs>>
condVars == <<creg, cval>>
gateVars == <<listen, in_gate, stack, balanced, muter, sameNested>>

\* ---------------------------------------------------------------- helpers
\* dict.get(key): the value, or None
Get(d, k) == IF k \in DOMAIN d THEN d[k] ELSE NoneIdx

\* d[key] = value
Put(d, k, v) == [x \in DOMAIN d \cup {k} |-> IF x = k THEN v ELSE d[x]]

\* name in list
InList(x, l) == \E i \in 1 .. Len(l) : l[i] = x

\* if name not in basis: basis.append(name)
AppendIfAbsent(l, x) == IF InList(x, l) THEN l ELSE Append(l, x)

\* "{0:0.15f}".format(number) for number = k*pi/2
_fs(k) ==
    CASE k = 0 -> "0.000000000000000"
      [] k = 1 -> "1.570796326794897"
      [] k = 2 -> "3.141592653589793"
      [] k = 3 -> "4.712388980384690"

\* complex numbers <<re, im>>
CMul(a, b) == <<a[1] * b[1] - a[2] * b[2], a[1] * b[2] + a[2] * b[1]>>
CNeg(a) == <<0 - a[1], 0 - a[2]>>
\* np.cos, np.sin of k quarter turns; np.exp(1j * k quarter turns)
Cos(k) == CASE k % 4 = 0 -> 1 [] k % 4 = 1 -> 0 [] k % 4 = 2 -> -1 [] k % 4 = 3 -> 0
Sin(k) == CASE k % 4 = 0 -> 0 [] k % 4 = 1 -> 1 [] k % 4 = 2 -> 0 [] k % 4 = 3 -> -1
Exp1j(k) == <<Cos(k), Sin(k)>>
Real(x) == <<x, 0>>

\* UMatrix with np.sin and np.cos exchanged
UMatrix_SinForCos(arg) ==
    LET half == arg[1] \div 2 IN
    << << Real(Sin(half)), CMul(CNeg(Exp1j(arg[3])), Real(Cos(half))) >>,
       << CMul(Exp1j(arg[2]), Real(Cos(half))), CMul(Exp1j(arg[2] + arg[3]), Real(Sin(half))) >> >>

\* the 2x2 matrix of u, theta = arg[1] (a multiple of pi), phi = arg[2], lambda = arg[3]
UMatrix(arg) ==
    LET half == arg[1] \div 2 IN
    << << Real(Cos(half)), CMul(CNeg(Exp1j(arg[3])), Real(Sin(half))) >>,
       << CMul(Exp1j(arg[2]), Real(Sin(half))), CMul(Exp1j(arg[2] + arg[3]), Real(Cos(half))) >> >>

\* the controlled-NOT written with the control as the high-order bit
CXMatrix_HighControl == << <<1, 0, 0, 0>>, <<0, 1, 0, 0>>, <<0, 0, 0, 1>>, <<0, 0, 1, 0>> >>

\* the 4x4 matrix of cx
CXMatrix == << <<1, 0, 0, 0>>, <<0, 0, 0, 1>>, <<0, 0, 1, 0>>, <<0, 1, 0, 0>> >>

UName(arg) == "U(" \o _fs(arg[1]) \o "," \o _fs(arg[2]) \o "," \o _fs(arg[3]) \o ")"

\* the record inserted at the head of the list
QasmAppend_AtHead(c, rec) == [c EXCEPT !.qasm = <<rec>> \o @]

\* self.circuit['qasm'].append(record)
QasmAppend(c, rec) == [c EXCEPT !.qasm = Append(@, rec)]

\* ---------------------------------------------------------------- construction
InitWith(bases) ==
    /\ circuit = [qasm |-> << >>]
    /\ _number_of_qubits = 0
    /\ _number_of_cbits = 0
    /\ _qubit_order = << >>
    /\ _cbit_order = << >>
    /\ _operation_order = 0
    /\ creg = NoneStr
    /\ cval = NoneIdx
    /\ gates = << >>
    /\ basis \in bases
    /\ listen = TRUE
    /\ in_gate = ""
    /\ last = [op |-> "__init__", result |-> OK]
    /\ stack = << >>
    /\ balanced = TRUE
    /\ muter = 0
    /\ sameNested = FALSE
    /\ qregs = << >>
    /\ cregs = << >>

Init == InitWith(InitBases)

InitGate == InitWith(GateBases)

\* ---------------------------------------------------------------- registration
\* the for loop of new_qreg / new_creg: order[(name, j)] = total + j for j in range(size)
\* AssignBlock numbering every block from 0, the running total forgotten
AssignBlock_FromZero(order, name, size, total) ==
    LET fresh == {<<name, j>> : j \in 0 .. size - 1} IN
    [k \in DOMAIN order \cup fresh |-> IF k \in fresh THEN k[2] ELSE order[k]]

AssignBlock(order, name, size, total) ==
    LET fresh == {<<name, j>> : j \in 0 .. size - 1} IN
    [k \in DOMAIN order \cup fresh |-> IF k \in fresh THEN total + k[2] ELSE order[k]]

\* new_qreg without the assert on size
new_qreg_Unchecked(name, size) ==
    /\ _qubit_order' = AssignBlock(_qubit_order, name, size, _number_of_qubits)
    /\ _number_of_qubits' = _number_of_qubits + size
    /\ circuit' = Put(Put(circuit, "number_of_qubits", _number_of_qubits'),
                      "qubit_order", _qubit_order')
    /\ qregs' = Append(qregs, <<name, size>>)
    /\ last' = [op |-> "new_qreg", result |-> OK]
    /\ UNCHANGED <<_number_of_cbits, _cbit_order, cregs, _operation_order,
                   condVars, gates, basis, gateVars>>

new_qreg(name, size) ==
    IF size < 0
    THEN /\ last' = [op |-> "new_qreg", result |-> InvalidRegisterSize("qreg")]
         /\ UNCHANGED <<circuit, regVars, _operation_order, condVars, gates, basis, gateVars>>
    ELSE /\ _qubit_order' = AssignBlock(_qubit_order, name, size, _number_of_qubits)
         /\ _number_of_qubits' = _number_of_qubits + size
         /\ circuit' = Put(Put(circuit, "number_of_qubits", _number_of_qubits'),
                           "qubit_order", _qubit_order')
         /\ qregs' = Append(qregs, <<name, size>>)
         /\ last' = [op |-> "new_qreg", result |-> OK]
         /\ UNCHANGED <<_number_of_cbits, _cbit_order, cregs, _operation_order,
                        condVars, gates, basis, gateVars>>

new_creg(name, size) ==
    IF size < 0
    THEN /\ last' = [op |-> "new_creg", result |-> InvalidRegisterSize("creg")]
         /\ UNCHANGED <<circuit, regVars, _operation_order, condVars, gates, basis, gateVars>>
    ELSE /\ _cbit_order' = AssignBlock(_cbit_order, name, size, _number_of_cbits)
         /\ _number_of_cbits' = _number_of_cbits + size
         /\ circuit' = Put(Put(circuit, "number_of_cbits", _number_of_cbits'),
                           "cbit_order", _cbit_order')
         /\ cregs' = Append(cregs, <<name, size>>)
         /\ last' = [op |-> "new_creg", result |-> OK]
         /\ UNCHANGED <<_number_of_qubits, _qubit_order, qregs, _operation_order,
                        condVars, gates, basis, gateVars>>

define_gate(name, gatedata) ==
    /\ gates' = Put(gates, name, gatedata)
    /\ last' = [op |-> "define_gate", result |-> OK]
    /\ UNCHANGED <<circuit, regVars, _operation_order, condVars, basis, gateVars>>

\* ---------------------------------------------------------------- primitive gates
\* Lower without the test of self.creg
Lower_Unguarded(op, basisName, rec) ==
    IF ~listen
    THEN /\ last' = [op |-> op, result |-> OK]
         /\ UNCHANGED <<circuit, _operation_order, basis>>
    ELSE /\ basis' = AppendIfAbsent(basis, basisName)
         /\ _operation_order' = _operation_order + 1
         /\ circuit' = QasmAppend(Put(circuit, "number_of_operations", _operation_order'), rec)
         /\ last' = [op |-> op, result |-> OK]

\* the body of u and of cx under "if self.listen:", given the basis name and the record
Lower(op, basisName, rec) ==
    IF ~listen
    THEN /\ last' = [op |-> op, result |-> OK]
         /\ UNCHANGED <<circuit, _operation_order, basis>>
    ELSE /\ basis' = AppendIfAbsent(basis, basisName)
         /\ IF creg # NoneStr
            THEN /\ last' = [op |-> op, result |-> UnsupportedConditionalOperation]
                 /\ UNCHANGED <<circuit, _operation_order>>
            ELSE /\ _operation_order' = _operation_order + 1
                 /\ circuit' = QasmAppend(Put(circuit, "number_of_operations", _operation_order'), rec)
                 /\ last' = [op |-> op, result |-> OK]

u(arg, qubit) ==
    /\ Lower("u", "U",
             [type |-> "gate", gate_size |-> 1, matrix |-> UMatrix(arg), name |-> UName(arg),
              qubit_indices |-> <<Get(_qubit_order, qubit)>>])
    /\ UNCHANGED <<regVars, condVars, gates, gateVars>>

\* cx listing the target before the control
cx_TargetFirst(qubit0, qubit1) ==
    /\ Lower("cx", "CX",
             [type |-> "gate", gate_size |-> 2, matrix |-> CXMatrix, name |-> "CX",
              qubit_indices |-> <<Get(_qubit_order, qubit1), Get(_qubit_order, qubit0)>>])
    /\ UNCHANGED <<regVars, condVars, gates, gateVars>>

cx(qubit0, qubit1) ==
    /\ Lower("cx", "CX",
             [type |-> "gate", gate_size |-> 2, matrix |-> CXMatrix, name |-> "CX",
              qubit_indices |-> <<Get(_qubit_order, qubit0), Get(_qubit_order, qubit1)>>])
    /\ UNCHANGED <<regVars, condVars, gates, gateVars>>

\* ---------------------------------------------------------------- structural operations
\* measure appending its record without counting it
measure_Uncounted(qubit, cbit) ==
    /\ circuit' = QasmAppend(Put(circuit, "number_of_operations", _operation_order),
                             [type |-> "measure",
                              qubit_indices |-> <<Get(_qubit_order, qubit)>>,
                              cbit_indices |-> <<Get(_cbit_order, cbit)>>])
    /\ last' = [op |-> "measure", result |-> OK]
    /\ UNCHANGED <<regVars, _operation_order, condVars, gates, basis, gateVars>>

measure(qubit, cbit) ==
    /\ _operation_order' = _operation_order + 1
    /\ circuit' = QasmAppend(Put(circuit, "number_of_operations", _operation_order'),
                             [type |-> "measure",
                              qubit_indices |-> <<Get(_qubit_order, qubit)>>,
                              cbit_indices |-> <<Get(_cbit_order, cbit)>>])
    /\ last' = [op |-> "measure", result |-> OK]
    /\ UNCHANGED <<regVars, condVars, gates, basis, gateVars>>

\* barrier recorded and counted like reset
barrier_Recorded(qubitlists) ==
    /\ _operation_order' = _operation_order + 1
    /\ circuit' = QasmAppend(Put(circuit, "number_of_operations", _operation_order'),
                             [type |-> "barrier", qubit_indices |-> << >>])
    /\ last' = [op |-> "barrier", result |-> OK]
    /\ UNCHANGED <<regVars, condVars, gates, basis, gateVars>>

barrier(qubitlists) ==
    /\ last' = [op |-> "barrier", result |-> OK]
    /\ UNCHANGED <<circuit, regVars, _operation_order, condVars, gates, basis, gateVars>>

\* reset obeying self.listen as u and cx do
reset_Listening(qubit) ==
    /\ IF listen
       THEN /\ _operation_order' = _operation_order + 1
            /\ circuit' = QasmAppend(Put(circuit, "number_of_operations", _operation_order'),
                                     [type |-> "reset",
                                      qubit_indices |-> <<Get(_qubit_order, qubit)>>])
       ELSE UNCHANGED <<circuit, _operation_order>>
    /\ last' = [op |-> "reset", result |-> OK]
    /\ UNCHANGED <<regVars, condVars, gates, basis, gateVars>>

reset(qubit) ==
    /\ _operation_order' = _operation_order + 1
    /\ circuit' = QasmAppend(Put(circuit, "number_of_operations", _operation_order'),
                             [type |-> "reset",
                              qubit_indices |-> <<Get(_qubit_order, qubit)>>])
    /\ last' = [op |-> "reset", result |-> OK]
    /\ UNCHANGED <<regVars, condVars, gates, basis, gateVars>>

\* ---------------------------------------------------------------- condition
set_condition(c, v) ==
    /\ creg' = c
    /\ cval' = v
    /\ last' = [op |-> "set_condition", result |-> OK]
    /\ UNCHANGED <<circuit, regVars, _operation_order, gates, basis, gateVars>>

drop_condition ==
    /\ creg' = NoneStr
    /\ cval' = NoneIdx
    /\ last' = [op |-> "drop_condition", result |-> OK]
    /\ UNCHANGED <<circuit, regVars, _operation_order, gates, basis, gateVars>>

\* ---------------------------------------------------------------- gate boundaries
\* the call history kept beside start_gate: the call opens a gate
Open(name) ==
    IF balanced
    THEN /\ stack' = Append(stack, name)
         /\ muter' = IF muter = 0 /\ listen /\ InList(name, basis) THEN Len(stack) + 1 ELSE muter
         /\ sameNested' = (sameNested \/ (muter # 0 /\ name = stack[muter]))
         /\ UNCHANGED balanced
    ELSE UNCHANGED <<stack, balanced, muter, sameNested>>

\* the call history kept beside end_gate: the call closes the innermost open gate, or breaks the nesting
Close(name) ==
    IF balanced /\ stack # << >> /\ stack[Len(stack)] = name
    THEN /\ stack' = SubSeq(stack, 1, Len(stack) - 1)
         /\ muter' = IF muter = Len(stack) THEN 0 ELSE muter
         /\ sameNested' = (sameNested /\ muter # Len(stack))
         /\ UNCHANGED balanced
    ELSE /\ stack' = << >>
         /\ muter' = 0
         /\ sameNested' = FALSE
         /\ balanced' = FALSE

\* start_gate looking the gate up before testing self.listen
start_gate_LooksUpWhileMuted(name, args, qubits) ==
    /\ Open(name)
    /\ IF ~InList(name, basis) /\ name \notin DOMAIN gates
       THEN /\ last' = [op |-> "start_gate", result |-> KeyError]
            /\ UNCHANGED <<listen, in_gate>>
       ELSE IF ~InList(name, basis) /\ gates[name].opaque
       THEN /\ last' = [op |-> "start_gate", result |-> OpaqueGateNotInBasis]
            /\ UNCHANGED <<listen, in_gate>>
       ELSE IF listen /\ InList(name, basis)
       THEN /\ in_gate' = name
            /\ listen' = FALSE
            /\ last' = [op |-> "start_gate",
                        result |-> IF creg # NoneStr THEN UnsupportedConditionalOperation ELSE OK]
       ELSE /\ last' = [op |-> "start_gate", result |-> OK]
            /\ UNCHANGED <<listen, in_gate>>
    /\ UNCHANGED <<circuit, regVars, _operation_order, condVars, gates, basis>>

\* start_gate muting on every name, in the basis or not
start_gate_MuteAll(name, args, qubits) ==
    /\ Open(name)
    /\ IF listen
       THEN /\ in_gate' = name
            /\ listen' = FALSE
            /\ last' = [op |-> "start_gate",
                        result |-> IF creg # NoneStr THEN UnsupportedConditionalOperation ELSE OK]
       ELSE /\ last' = [op |-> "start_gate", result |-> OK]
            /\ UNCHANGED <<listen, in_gate>>
    /\ UNCHANGED <<circuit, regVars, _operation_order, condVars, gates, basis>>

\* start_gate without the test of self.creg
start_gate_Unguarded(name, args, qubits) ==
    /\ Open(name)
    /\ IF listen /\ ~InList(name, basis) /\ name \notin DOMAIN gates
       THEN /\ last' = [op |-> "start_gate", result |-> KeyError]
            /\ UNCHANGED <<listen, in_gate>>
       ELSE IF listen /\ ~InList(name, basis) /\ gates[name].opaque
       THEN /\ last' = [op |-> "start_gate", result |-> OpaqueGateNotInBasis]
            /\ UNCHANGED <<listen, in_gate>>
       ELSE IF listen /\ InList(name, basis)
       THEN /\ in_gate' = name
            /\ listen' = FALSE
            /\ last' = [op |-> "start_gate", result |-> OK]
       ELSE /\ last' = [op |-> "start_gate", result |-> OK]
            /\ UNCHANGED <<listen, in_gate>>
    /\ UNCHANGED <<circuit, regVars, _operation_order, condVars, gates, basis>>

\* start_gate without the test of the opaque flag
start_gate_NoOpaque(name, args, qubits) ==
    /\ Open(name)
    /\ IF listen /\ InList(name, basis)
       THEN /\ in_gate' = name
            /\ listen' = FALSE
            /\ last' = [op |-> "start_gate",
                        result |-> IF creg # NoneStr THEN UnsupportedConditionalOperation ELSE OK]
       ELSE /\ last' = [op |-> "start_gate", result |-> OK]
            /\ UNCHANGED <<listen, in_gate>>
    /\ UNCHANGED <<circuit, regVars, _operation_order, condVars, gates, basis>>

start_gate(name, args, qubits) ==
    /\ Open(name)
    /\ IF listen /\ ~InList(name, basis) /\ name \notin DOMAIN gates
       THEN /\ last' = [op |-> "start_gate", result |-> KeyError]
            /\ UNCHANGED <<listen, in_gate>>
       ELSE IF listen /\ ~InList(name, basis) /\ gates[name].opaque
       THEN /\ last' = [op |-> "start_gate", result |-> OpaqueGateNotInBasis]
            /\ UNCHANGED <<listen, in_gate>>
       ELSE IF listen /\ InList(name, basis)
       THEN /\ in_gate' = name
            /\ listen' = FALSE
            /\ last' = [op |-> "start_gate",
                        result |-> IF creg # NoneStr THEN UnsupportedConditionalOperation ELSE OK]
       ELSE /\ last' = [op |-> "start_gate", result |-> OK]
            /\ UNCHANGED <<listen, in_gate>>
    /\ UNCHANGED <<circuit, regVars, _operation_order, condVars, gates, basis>>

\* end_gate re-arming without clearing the marker
end_gate_KeepsMarker(name, args, qubits) ==
    /\ Close(name)
    /\ IF name = in_gate
       THEN /\ listen' = TRUE
            /\ UNCHANGED in_gate
       ELSE UNCHANGED <<listen, in_gate>>
    /\ last' = [op |-> "end_gate", result |-> OK]
    /\ UNCHANGED <<circuit, regVars, _operation_order, condVars, gates, basis>>

\* end_gate re-arming whenever the backend is muted
end_gate_WhenMuted(name, args, qubits) ==
    /\ Close(name)
    /\ IF ~listen
       THEN /\ in_gate' = ""
            /\ listen' = TRUE
       ELSE UNCHANGED <<listen, in_gate>>
    /\ last' = [op |-> "end_gate", result |-> OK]
    /\ UNCHANGED <<circuit, regVars, _operation_order, condVars, gates, basis>>

\* end_gate re-arming on every name, the muting gate's or not
end_gate_AnyName(name, args, qubits) ==
    /\ Close(name)
    /\ in_gate' = ""
    /\ listen' = TRUE
    /\ last' = [op |-> "end_gate", result |-> OK]
    /\ UNCHANGED <<circuit, regVars, _operation_order, condVars, gates, basis>>

end_gate(name, args, qubits) ==
    /\ Close(name)
    /\ IF name = in_gate
       THEN /\ in_gate' = ""
            /\ listen' = TRUE
       ELSE UNCHANGED <<listen, in_gate>>
    /\ last' = [op |-> "end_gate", result |-> OK]
    /\ UNCHANGED <<circuit, regVars, _operation_order, condVars, gates, basis>>

\* ---------------------------------------------------------------- specifications
\* The callback surface.  Registration comes first, as the traversal
\* driver does it, and is one qreg "q" and one creg "c" here; SpecIndex
\* exercises the index spaces.  The other callbacks come in any order.
RegisterOnce ==
    /\ last.op \in {"__init__", "new_qreg", "new_creg"}
    /\ \/ qregs = << >> /\ new_qreg("q", 1)
       \/ cregs = << >> /\ new_creg("c", 1)

Define ==
    \E d \in {<<"h", [opaque |-> FALSE]>>, <<"op", [opaque |-> TRUE]>>} : define_gate(d[1], d[2])

Primitive ==
    /\ _operation_order < MaxOps
    /\ \/ u(<<0, 0, 0>>, <<"q", 0>>)
       \/ cx(<<"q", 0>>, <<"q", 0>>)

Structural ==
    /\ _operation_order < MaxOps
    /\ \/ measure(<<"q", 0>>, <<"c", 0>>)
       \/ reset(<<"q", 0>>)

Barrier == \E qubitlists \in BarrierLists : barrier(qubitlists)

Condition ==
    \/ set_condition("c", 1)
    \/ drop_condition

Begin ==
    /\ Len(stack) < MaxDepth
    /\ \E name \in GateNames : start_gate(name, << >>, << <<"q", 0>> >>)

End ==
    \E name \in GateNames : end_gate(name, << >>, << <<"q", 0>> >>)

Next ==
    \/ RegisterOnce
    \/ Define
    \/ Primitive
    \/ Structural
    \/ Barrier
    \/ Condition
    \/ Begin
    \/ End

Spec == Init /\ [][Next]_vars

\* The listen/mute controller alone: gate definitions, primitive gates,
\* the condition and the gate boundaries, from every basis over the gate names.
NextGate ==
    \/ Define
    \/ Primitive
    \/ Condition
    \/ Begin
    \/ End

SpecGate == InitGate /\ [][NextGate]_vars

\* The index spaces: registration in any order and size, then operations
\* on any bit reference.
Register ==
    /\ Len(qregs) + Len(cregs) < MaxRegs
    /\ \/ \E name \in QRegNames, size \in RegSizes : new_qreg(name, size)
       \/ \E name \in CRegNames, size \in RegSizes : new_creg(name, size)

Operate ==
    /\ _operation_order < MaxIndexOps
    /\ \/ \E arg \in UArgs, q \in QRefs : u(arg, q)
       \/ \E q0 \in QRefs, q1 \in QRefs : cx(q0, q1)
       \/ \E q \in QRefs, c \in CRefs : measure(q, c)
       \/ \E q \in QRefs : reset(q)

NextIndex ==
    \/ Register
    \/ Operate

SpecIndex == Init /\ [][NextIndex]_vars

\* ---------------------------------------------------------------- claims: gate boundaries
\* the records of the operation list
Qasm == circuit.qasm

\* this step appended exactly one record of the given type and counted it
AppendedOne(type) ==
    /\ Len(circuit'.qasm) = Len(Qasm) + 1
    /\ SubSeq(circuit'.qasm, 1, Len(Qasm)) = Qasm
    /\ circuit'.qasm[Len(Qasm) + 1].type = type
    /\ _operation_order' = _operation_order + 1

\* this step left the operation list and the operation count alone
NoRecord ==
    /\ circuit' = circuit
    /\ _operation_order' = _operation_order

\* a start_gate that found its name in the basis while listening is still open
Muting == balanced /\ muter # 0

\* C1 as stated: between a start_gate(g) that finds g in the basis while
\* listening and the end_gate(g) that matches it, no u or cx call appends a
\* record or changes the count, whatever the names of the gates nested
\* inside, g included.
C1_Original ==
    [][ (Muting /\ last'.op \in {"u", "cx"}) => NoRecord ]_vars

\* C1 amended: when start_gate(g) finds g in the basis while listening, then
\* as long as the nested start_gate/end_gate calls are balanced and none of
\* them names g itself, the backend stays muted on g, no u or cx call appends
\* a record or changes the count, and the matching end_gate(g) makes the
\* backend listen again, after which u and cx append one record each.
C1_MutedUntilMatchingEnd ==
    /\ []((Muting /\ ~sameNested) => (~listen /\ in_gate = stack[muter]))
    /\ [][ /\ (Muting /\ ~sameNested /\ last'.op \in {"u", "cx"})
              => (NoRecord /\ last'.result = OK)
           /\ (Muting /\ ~sameNested /\ balanced' /\ muter' = 0)
              => (last'.op = "end_gate" /\ listen' /\ in_gate' = "")
           /\ (listen /\ creg = NoneStr /\ last'.op \in {"u", "cx"})
              => AppendedOne("gate") ]_vars

\* a u call was suppressed inside a gate nested in the muting gate
C1_Witness ==
    /\ Muting /\ ~sameNested
    /\ Len(stack) > muter
    /\ last = [op |-> "u", result |-> OK]
    /\ Qasm = << >>

\* C2: start_gate(name) while listening with no condition, name a defined
\* gate that is neither opaque nor in the basis, returns normally, keeps the
\* backend listening and leaves the artifact as it was; each u or cx call made
\* inside it while still listening and unconditioned appends exactly one gate
\* record.
C2_ExpandedGateLowers ==
    [][ /\ \A name \in GateNames :
              ( /\ listen /\ creg = NoneStr
                /\ name \in DOMAIN gates /\ ~InList(name, basis)
                /\ ~gates[name].opaque
                /\ start_gate(name, << >>, << <<"q", 0>> >>) )
              => (last'.result = OK /\ listen' /\ in_gate' = in_gate /\ NoRecord /\ basis' = basis)
        /\ (balanced /\ stack # << >> /\ listen /\ creg = NoneStr /\ last'.op \in {"u", "cx"})
              => (AppendedOne("gate") /\ last'.result = OK) ]_vars

\* a cx call lowered inside the expanded gate h
C2_Witness ==
    /\ balanced /\ stack = <<"h">> /\ muter = 0
    /\ "h" \in DOMAIN gates /\ listen
    /\ last = [op |-> "cx", result |-> OK]
    /\ Len(Qasm) = 1 /\ Qasm[1].type = "gate"

\* C3: while a condition is active and the backend listens, u and cx fail
\* with UnsupportedConditionalOperation and leave the operation list and the
\* operation count as they were; with no condition the same calls append
\* one gate record.
C3_ConditionRejectsPrimitives ==
    [][ (listen /\ last'.op \in {"u", "cx"}) =>
            IF creg # NoneStr
            THEN last'.result = UnsupportedConditionalOperation /\ NoRecord
            ELSE last'.result = OK /\ AppendedOne("gate") ]_vars

\* a u call failed under a condition after a record had been appended
C3_Witness ==
    /\ last = [op |-> "u", result |-> UnsupportedConditionalOperation]
    /\ creg = "c" /\ listen
    /\ Len(Qasm) = 1

\* the gate names C4 is about: in the basis, or defined and not opaque
C4_Covered(name) ==
    \/ InList(name, basis)
    \/ (name \in DOMAIN gates /\ ~gates[name].opaque)

\* C4 as stated: start_gate while listening under an active condition fails
\* with UnsupportedConditionalOperation for every name that is in the basis
\* or is a non-opaque gate outside the basis.
C4_Original ==
    [][ \A name \in GateNames :
            ( /\ listen /\ creg # NoneStr /\ C4_Covered(name)
              /\ start_gate(name, << >>, << <<"q", 0>> >>) )
            => last'.result = UnsupportedConditionalOperation ]_vars

\* C4 amended: start_gate while listening under an active condition fails
\* with UnsupportedConditionalOperation when the name is in the basis; for a
\* defined, non-opaque name outside the basis it returns normally and the
\* backend keeps listening.
C4_ConditionRejectsBasisGate ==
    [][ \A name \in GateNames :
            ( /\ listen /\ creg # NoneStr /\ C4_Covered(name)
              /\ start_gate(name, << >>, << <<"q", 0>> >>) )
            => IF InList(name, basis)
               THEN last'.result = UnsupportedConditionalOperation
               ELSE last'.result = OK /\ listen' /\ NoRecord ]_vars

\* a start_gate failed under the condition
C4_Witness ==
    /\ last = [op |-> "start_gate", result |-> UnsupportedConditionalOperation]
    /\ creg = "c"

\* C5 as stated: start_gate(name) while listening, name declared opaque:
\* outside the basis it fails with OpaqueGateNotInBasis and leaves listen
\* state, marker, basis and artifact alone; in the basis it does not fail and
\* the state becomes MUTED(name).
C5_Original ==
    [][ \A name \in GateNames :
            ( /\ listen /\ name \in DOMAIN gates /\ gates[name].opaque
              /\ start_gate(name, << >>, << <<"q", 0>> >>) )
            => IF ~InList(name, basis)
               THEN /\ last'.result = OpaqueGateNotInBasis
                    /\ listen' /\ in_gate' = in_gate /\ basis' = basis /\ NoRecord
               ELSE /\ last'.result = OK
                    /\ ~listen' /\ in_gate' = name ]_vars

\* C5 amended: as stated, except that in the basis the state becomes
\* MUTED(name) and the call does not fail only when no condition is active;
\* under an active condition it fails with UnsupportedConditionalOperation.
C5_OpaqueNeedsBasis ==
    [][ \A name \in GateNames :
            ( /\ listen /\ name \in DOMAIN gates /\ gates[name].opaque
              /\ start_gate(name, << >>, << <<"q", 0>> >>) )
            => IF ~InList(name, basis)
               THEN /\ last'.result = OpaqueGateNotInBasis
                    /\ listen' /\ in_gate' = in_gate /\ basis' = basis /\ NoRecord
               ELSE /\ last'.result = IF creg = NoneStr THEN OK
                                      ELSE UnsupportedConditionalOperation
                    /\ ~listen' /\ in_gate' = name ]_vars

\* start_gate on the opaque gate op failed outside the basis
C5_Witness ==
    /\ last = [op |-> "start_gate", result |-> OpaqueGateNotInBasis]
    /\ "op" \in DOMAIN gates /\ ~InList("op", basis)
    /\ listen /\ in_gate = ""

\* ---------------------------------------------------------------- claims: index spaces
\* no two registrations of the history share a name
DistinctNames(regs) ==
    \A i, j \in 1 .. Len(regs) : i # j => regs[i][1] # regs[j][1]

\* the sizes of the first k registrations of the history, added up
RECURSIVE SizesUpTo(_, _)
SizesUpTo(regs, k) == IF k = 0 THEN 0 ELSE SizesUpTo(regs, k - 1) + regs[k][2]

\* the indices a mapping hands out
Indices(order) == {order[k] : k \in DOMAIN order}

\* bit (name, j) of the k-th register is at (sizes of the registers before it) + j,
\* nothing else is mapped, and the indices are exactly 0 .. total - 1
BlockwiseDense(regs, order, total) ==
    /\ \A k \in 1 .. Len(regs) : \A j \in 0 .. regs[k][2] - 1 :
          /\ <<regs[k][1], j>> \in DOMAIN order
          /\ order[<<regs[k][1], j>>] = SizesUpTo(regs, k - 1) + j
    /\ DOMAIN order = UNION {{<<regs[k][1], j>> : j \in 0 .. regs[k][2] - 1} : k \in 1 .. Len(regs)}
    /\ total = SizesUpTo(regs, Len(regs))
    /\ Indices(order) = 0 .. total - 1

\* C6: after register calls with non-negative sizes and pairwise distinct
\* names within each kind, bit (name, j) of the k-th qreg maps to (sum of
\* the sizes of the qregs before it) + j, so the indices are exactly 0..N-1;
\* the same for cregs; and registering one kind leaves the other kind's
\* mapping and count alone.
C6_DenseOrderStableIndices ==
    /\ [](DistinctNames(qregs) => BlockwiseDense(qregs, _qubit_order, _number_of_qubits))
    /\ [](DistinctNames(cregs) => BlockwiseDense(cregs, _cbit_order, _number_of_cbits))
    /\ [][ /\ last'.op = "new_qreg"
              => (_cbit_order' = _cbit_order /\ _number_of_cbits' = _number_of_cbits)
           /\ last'.op = "new_creg"
              => (_qubit_order' = _qubit_order /\ _number_of_qubits' = _number_of_qubits) ]_vars

\* qreg "q" of size 2 then qreg "r" of size 1: r0 is at index 2
C6_Witness ==
    /\ qregs = << <<"q", 2>>, <<"r", 1>> >>
    /\ <<"r", 0>> \in DOMAIN _qubit_order
    /\ _qubit_order[<<"r", 0>>] = 2
    /\ _number_of_qubits = 3

\* C7: for any register calls, repeated names included, the index of a bit
\* reference never changes once assigned, and each mapping covers every
\* index in 0 .. total - 1.
C7_Claim ==
    /\ [](Indices(_qubit_order) = 0 .. _number_of_qubits - 1)
    /\ [](Indices(_cbit_order) = 0 .. _number_of_cbits - 1)
    /\ [][ /\ \A k \in DOMAIN _qubit_order :
                 k \in DOMAIN _qubit_order' /\ _qubit_order'[k] = _qubit_order[k]
           /\ \A k \in DOMAIN _cbit_order :
                 k \in DOMAIN _cbit_order' /\ _cbit_order'[k] = _cbit_order[k] ]_vars

\* C10: u, cx, measure and reset on a bit reference that was never
\* registered fail with UnknownBitReference and append nothing, so every
\* index stored in a record is an assigned index of its space.
C10_Claim ==
    /\ [](\A i \in 1 .. Len(Qasm) :
            /\ \A n \in 1 .. Len(Qasm[i].qubit_indices) :
                  Qasm[i].qubit_indices[n] \in 0 .. _number_of_qubits - 1
            /\ Qasm[i].type = "measure"
                  => Qasm[i].cbit_indices[1] \in 0 .. _number_of_cbits - 1)
    /\ [][ \A q \in QRefs :
              (q \notin DOMAIN _qubit_order /\ reset(q))
              => (last'.result = "UnknownBitReference" /\ NoRecord) ]_vars

\* ---------------------------------------------------------------- claims: operation count
\* the call of this step is one that appends: measure, reset, or a u or cx
\* made while listening that returned normally
AppendingCall ==
    \/ last'.op \in {"measure", "reset"}
    \/ (last'.op \in {"u", "cx"} /\ listen /\ last'.result = OK)

\* C8: after any callbacks, failing ones included, the operation count is
\* the number of records in the operation list (and the artifact's
\* number_of_operations, once set, agrees); a step raises both by one when
\* it is a u, cx, measure or reset that appends, and no other callback
\* changes them.
C8_CountIsRecords ==
    /\ [](/\ _operation_order = Len(Qasm)
          /\ "number_of_operations" \in DOMAIN circuit
                => circuit.number_of_operations = _operation_order)
    /\ [][ IF AppendingCall
           THEN _operation_order' = _operation_order + 1 /\ Len(circuit'.qasm) = Len(Qasm) + 1
           ELSE _operation_order' = _operation_order /\ circuit'.qasm = Qasm ]_vars

\* a measure was counted after a cx had failed under a condition
C8_Witness ==
    /\ last = [op |-> "measure", result |-> OK]
    /\ _operation_order = 1 /\ Len(Qasm) = 1
    /\ creg = "c" /\ InList("CX", basis)

\* C9: measure and reset append exactly one record and raise the count by
\* one whether listening or muted and whether or not a condition is active;
\* they never fail and never change the listen state or the condition.
C9_StructuralUnconditional ==
    [][ /\ last'.op = "measure" => (AppendedOne("measure") /\ last'.result = OK)
        /\ last'.op = "reset" => (AppendedOne("reset") /\ last'.result = OK)
        /\ last'.op \in {"measure", "reset"}
              => /\ listen' = listen /\ in_gate' = in_gate
                 /\ creg' = creg /\ cval' = cval ]_vars

\* a reset was recorded while muted and under a condition
C9_Witness ==
    /\ last = [op |-> "reset", result |-> OK]
    /\ ~listen /\ in_gate = "h" /\ creg = "c"
    /\ Len(Qasm) = 1 /\ Qasm[1].type = "reset"

\* ---------------------------------------------------------------- claims: barrier
\* C11: barrier, for any list of qubit groups and in any state, returns
\* normally and leaves the operation list, the operation count, the qubit
\* and classical-bit counts, both index mappings, the basis, the listen
\* state and the active condition as they were.
C11_BarrierChangesNothing ==
    [][ \A qubitlists \in BarrierLists :
            barrier(qubitlists)
            => /\ last'.result = OK
               /\ NoRecord
               /\ _number_of_qubits' = _number_of_qubits
               /\ _number_of_cbits' = _number_of_cbits
               /\ _qubit_order' = _qubit_order /\ _cbit_order' = _cbit_order
               /\ basis' = basis
               /\ listen' = listen /\ in_gate' = in_gate
               /\ creg' = creg /\ cval' = cval ]_vars

\* a barrier went by while muted, under a condition, with a record in the list
C11_Witness ==
    /\ last = [op |-> "barrier", result |-> OK]
    /\ ~listen /\ creg = "c"
    /\ Len(Qasm) = 1 /\ _operation_order = 1
    /\ _number_of_qubits = 1

\* ---------------------------------------------------------------- claims: cx
\* the record this step appended
NewRecord == circuit'.qasm[Len(circuit'.qasm)]

\* C12: an accepted cx(control, target) appends one gate record of arity 2
\* named "CX" whose qubit index list is [idx(control), idx(target)] in that
\* order, with one and the same matrix whatever the two qubits are.
C12_CxRecord ==
    [][ \A q0 \in QRefs, q1 \in QRefs :
            (listen /\ creg = NoneStr /\ cx(q0, q1))
            => /\ AppendedOne("gate")
               /\ NewRecord.gate_size = 2
               /\ NewRecord.name = "CX"
               /\ Len(NewRecord.qubit_indices) = 2
               /\ q0 \in DOMAIN _qubit_order => NewRecord.qubit_indices[1] = _qubit_order[q0]
               /\ q1 \in DOMAIN _qubit_order => NewRecord.qubit_indices[2] = _qubit_order[q1]
               /\ NewRecord.matrix = << <<1, 0, 0, 0>>, <<0, 0, 0, 1>>,
                                        <<0, 0, 1, 0>>, <<0, 1, 0, 0>> >> ]_vars

\* cx with control r[0] (index 2) and target q[1] (index 1) was recorded as [2, 1]
C12_Witness ==
    /\ last = [op |-> "cx", result |-> OK]
    /\ qregs = << <<"q", 2>>, <<"r", 1>> >>
    /\ Len(Qasm) = 1
    /\ Qasm[1].qubit_indices = <<2, 1>>

\* the 4x4 matrix, acting on column vectors, of the permutation that sends
\* basis index j to image[j + 1]: entry (row, column) is 1 exactly when the
\* column's index is sent to the row's
PermutationMatrix(image) ==
    [row \in 1 .. 4 |-> [col \in 1 .. 4 |-> IF image[col] = row - 1 THEN 1 ELSE 0]]

\* t XOR c of two bits
Xor(t, c) == (t + c) % 2

\* index 2*c + t goes to 2*c + (t XOR c): the control is the high-order bit
ControlHigh == [j \in 1 .. 4 |-> LET c == (j - 1) \div 2  t == (j - 1) % 2 IN 2 * c + Xor(t, c)]

\* index 2*t + c goes to 2*(t XOR c) + c: the control is the low-order bit
ControlLow == [j \in 1 .. 4 |-> LET t == (j - 1) \div 2  c == (j - 1) % 2 IN 2 * Xor(t, c) + c]

\* the matrices of the CX records of the operation list
CxMatrices == {Qasm[i].matrix : i \in {n \in 1 .. Len(Qasm) : Qasm[n].type = "gate" /\ Qasm[n].name = "CX"}}

\* C13 as stated: the matrix cx emits is the controlled-NOT with the control
\* as the high-order bit: it sends index 2*c + t to 2*c + (t XOR c), fixing
\* 0 and 1 and swapping 2 and 3.
C13_Original ==
    \A m \in CxMatrices : m = PermutationMatrix(ControlHigh)

\* C13 amended: the matrix cx emits is the controlled-NOT with the control
\* as the low-order bit: with basis index 2*t + c it sends 2*t + c to
\* 2*(t XOR c) + c, fixing 0 and 2 and swapping 1 and 3.
C13_CxControlIsLowBit ==
    \A m \in CxMatrices :
        /\ m = PermutationMatrix(ControlLow)
        /\ ControlLow = <<0, 3, 2, 1>>

\* a CX record is in the operation list
C13_Witness ==
    /\ last = [op |-> "cx", result |-> OK]
    /\ CxMatrices # {}

\* ---------------------------------------------------------------- claims: register sizes
\* both mappings and both totals are as they were
IndexSpacesUnchanged ==
    /\ _qubit_order' = _qubit_order /\ _number_of_qubits' = _number_of_qubits
    /\ _cbit_order' = _cbit_order /\ _number_of_cbits' = _number_of_cbits

\* C14: a register call with a negative size fails with
\* InvalidRegisterSize and leaves both mappings and both totals as they
\* were; with size 0 it succeeds, assigns no index and leaves the totals as
\* they were.
C14_RegisterSizeChecked ==
    [][ /\ \A name \in QRegNames, size \in RegSizes :
              (size <= 0 /\ new_qreg(name, size))
              => /\ last'.result = IF size < 0 THEN InvalidRegisterSize("qreg") ELSE OK
                 /\ IndexSpacesUnchanged
        /\ \A name \in CRegNames, size \in RegSizes :
              (size <= 0 /\ new_creg(name, size))
              => /\ last'.result = IF size < 0 THEN InvalidRegisterSize("creg") ELSE OK
                 /\ IndexSpacesUnchanged ]_vars

\* a new_qreg of negative size failed after a qreg of size 2 had been registered
C14_Witness ==
    /\ last = [op |-> "new_qreg", result |-> InvalidRegisterSize("qreg")]
    /\ qregs = << <<"q", 2>> >>
    /\ _number_of_qubits = 2

\* ---------------------------------------------------------------- claims: u
\* C15: u((0, 0, 0), q) while listening with no condition appends exactly
\* one gate record of arity 1 on [idx(q)] whose matrix is the 2x2 identity,
\* raises the operation count by exactly one and leaves "U" in the basis.
C15_UZeroIsIdentity ==
    [][ \A q \in QRefs :
            (listen /\ creg = NoneStr /\ u(<<0, 0, 0>>, q))
            => /\ last'.result = OK
               /\ AppendedOne("gate")
               /\ NewRecord.gate_size = 1
               /\ Len(NewRecord.qubit_indices) = 1
               /\ q \in DOMAIN _qubit_order => NewRecord.qubit_indices[1] = _qubit_order[q]
               /\ NewRecord.matrix = << << <<1, 0>>, <<0, 0>> >>,
                                        << <<0, 0>>, <<1, 0>> >> >>
               /\ InList("U", basis') ]_vars

\* u((0, 0, 0), r[0]) was recorded on index 2 with "U" new in the basis
C15_Witness ==
    /\ last = [op |-> "u", result |-> OK]
    /\ Len(Qasm) = 1
    /\ Qasm[1].name = "U(0.000000000000000,0.000000000000000,0.000000000000000)"
    /\ Qasm[1].qubit_indices = <<2>>
    /\ basis = <<"U">>

\* ---------------------------------------------------------------- claims: the operation list over time
\* C16: the operation list is append-only and its records never change:
\* over every callback the list before is a prefix of the list after, so
\* records stay in the order their calls were made, and the operation
\* count never decreases.
C16_AppendOnly ==
    [][ /\ Len(circuit'.qasm) >= Len(Qasm)
        /\ SubSeq(circuit'.qasm, 1, Len(Qasm)) = Qasm
        /\ _operation_order' >= _operation_order ]_vars

\* a measure was appended behind a gate record
C16_Witness ==
    /\ last = [op |-> "measure", result |-> OK]
    /\ Len(Qasm) = 2
    /\ Qasm[1].type = "gate" /\ Qasm[2].type = "measure"

\* C17: end_gate(name) changes the listen state only when the backend is
\* muted on g and name is g, and then the backend listens again; muted on g
\* with another name, or listening with any name, it leaves listen state
\* and marker as they were; in every case basis and artifact are untouched.
C17_EndGateFrame ==
    [][ \A name \in GateNames :
            end_gate(name, << >>, << <<"q", 0>> >>)
            => /\ IF ~listen /\ name = in_gate
                  THEN listen' /\ in_gate' = ""
                  ELSE listen' = listen /\ in_gate' = in_gate
               /\ basis' = basis
               /\ NoRecord
               /\ last'.result = OK ]_vars

\* the end_gate of a gate nested in the muting gate h went by: still muted on h
C17_Witness ==
    /\ last = [op |-> "end_gate", result |-> OK]
    /\ balanced /\ stack = <<"h">> /\ muter = 1
    /\ ~listen /\ in_gate = "h"

\* C18: while muted, u, cx and start_gate (on any name: in the basis or
\* not, opaque or not, defined or not) return normally and change nothing,
\* even under an active condition.
C18_MutedCallsAreNoOps ==
    [][ (~listen /\ last'.op \in {"u", "cx", "start_gate"})
        => /\ last'.result = OK
           /\ NoRecord
           /\ IndexSpacesUnchanged
           /\ basis' = basis /\ gates' = gates
           /\ listen' = listen /\ in_gate' = in_gate
           /\ creg' = creg /\ cval' = cval ]_vars

\* start_gate on the opaque, non-basis name op returned normally while
\* muted on h under a condition
C18_Witness ==
    /\ last = [op |-> "start_gate", result |-> OK]
    /\ balanced /\ stack = <<"h", "op">> /\ muter = 1
    /\ ~listen /\ in_gate = "h" /\ creg = "c"
    /\ "op" \in DOMAIN gates /\ gates["op"].opaque /\ ~InList("op", basis)

\* C19: every callback that fails leaves operation list, operation count,
\* basis, listen state and marker exactly as they were before the call.
C19_Claim ==
    [][ last'.result # OK
        => /\ NoRecord
           /\ basis' = basis
           /\ listen' = listen /\ in_gate' = in_gate ]_vars

\* C20: in every state reached through the callbacks, with basis names
\* non-empty, the backend is muted exactly when the marker is a non-empty
\* name, that name is in the basis, and when listening the marker is empty.
C20_FlagMatchesMarker ==
    /\ listen <=> in_gate = ""
    /\ ~listen => InList(in_gate, basis)

\* muted on op after an end_gate that broke the nesting
C20_Witness ==
    /\ ~listen /\ in_gate = "op"
    /\ ~balanced
    /\ last.op = "end_gate"

====
